---- MODULE Spec2Model ----
(***************************************************************************)
(* A model of demucs/api.py: the Separator class (construction, partial   *)
(* parameter update, audio loading with a backend fallback chain,          *)
(* separation of a tensor or a file) and the module function save_audio.  *)
(*                                                                         *)
(* Python values are tagged records [type, val]; a Python dict is the      *)
(* sequence of its <<key, value>> items in insertion order; a str that     *)
(* the code splits or lower-cases (a path) is the sequence of its          *)
(* characters; a str the code only builds by format/join (a message) is   *)
(* the sequence of its fragments.                                          *)
(***************************************************************************)
EXTENDS Integers, Sequences, FiniteSets, TLC

VARIABLES
    life,      \* the Separator object: "new" (not constructed), "ready", "dead"
    self,      \* the nine parameter attributes of the Separator (_device, ...)
    model,     \* self._model with self._audio_channels and self._samplerate
    pc,        \* position of the running call: "idle", "returned", or a place in _load_audio
    call,      \* the call in progress or just returned: its name and arguments
    ret,       \* how that call ended: a returned value or a raised exception
    nUpdates,  \* update_parameter calls made so far on this Separator
    errors,    \* _load_audio's local dict `errors`
    wav,       \* _load_audio's local `wav`
    sr,        \* _load_audio's local `sr`
    trace,     \* the backend and conversion calls _load_audio has made, in order
    applied,   \* the keyword arguments separate_tensor handed to apply_model
    encoded    \* the encoder invocations save_audio has made, in order

vars == <<life, self, model, pc, call, ret, nUpdates, errors, wav, sr, trace,
          applied, encoded>>

(***************************************************************************)
(* Bounds of the model.                                                    *)
(***************************************************************************)
MaxUpdates == 2
MaxSamples == 2

(***************************************************************************)
(* Python values.                                                          *)
(***************************************************************************)
None == [type |-> "NoneType", val |-> "None"]
\* The value of an attribute the object does not have (hasattr is False).
Absent == [type |-> "<no attribute>", val |-> "<no attribute>"]
PyInt(i) == [type |-> "int", val |-> i]
PyStr(s) == [type |-> "str", val |-> s]
PyBool(b) == [type |-> "bool", val |-> b]
PyFloat(s) == [type |-> "float", val |-> s]
PyFunc(f) == [type |-> "function", val |-> f]
PyDict(items) == [type |-> "dict", val |-> items]

\* Python's callable(v).
Callable(v) == v.type = "function"

\* Python's truth value of v.
Truthy(v) ==
    CASE v.type = "NoneType" -> FALSE
      [] v.type = "int" -> v.val # 0
      [] v.type = "bool" -> v.val
      [] v.type = "float" -> v.val # "0.0"
      [] v.type = "str" -> v.val # ""
      [] v.type = "dict" -> Len(v.val) > 0
      [] OTHER -> TRUE

(***************************************************************************)
(* Python dicts: insertion-ordered sequences of <<key, value>> items.      *)
(***************************************************************************)
DictKeys(d) == [i \in 1..Len(d) |-> d[i][1]]
DictHas(d, k) == \E i \in 1..Len(d) : d[i][1] = k
DictGet(d, k) == d[CHOOSE i \in 1..Len(d) : d[i][1] = k][2]
\* d[k] = v: an existing key keeps its place, a new key goes last.
DictSet(d, k, v) ==
    IF DictHas(d, k)
    THEN [i \in 1..Len(d) |-> IF d[i][1] = k THEN <<k, v>> ELSE d[i]]
    ELSE Append(d, <<k, v>>)

RECURSIVE DictFromPairs(_)
\* dict(pairs): the items are set one after the other.
DictFromPairs(pairs) ==
    IF pairs = <<>> THEN <<>>
    ELSE LET n == Len(pairs)
         IN DictSet(DictFromPairs(SubSeq(pairs, 1, n - 1)), pairs[n][1], pairs[n][2])

\* zip(a, b): stops at the shorter of the two.
Zip(a, b) ==
    LET n == IF Len(a) < Len(b) THEN Len(a) ELSE Len(b)
    IN [i \in 1..n |-> <<a[i], b[i]>>]

(***************************************************************************)
(* The parameters of Separator.__init__ and Separator.update_parameter.    *)
(***************************************************************************)
\* The nine parameters, in the order update_parameter stores them; parameter
\* p is kept in the attribute _p.
ParamNames == <<"device", "shifts", "overlap", "split", "segment", "jobs",
                "progress", "callback", "callback_arg">>
Params == {ParamNames[i] : i \in 1..Len(ParamNames)}

\* Values a caller passes for a parameter (None apart).
ParamValues(p) ==
    CASE p = "device" -> {PyStr("cpu"), PyStr("cuda")}
      [] p = "shifts" -> {PyInt(0), PyInt(1)}
      [] p = "overlap" -> {PyFloat("0.25"), PyFloat("0.5")}
      [] p = "split" -> {PyBool(TRUE), PyBool(FALSE)}
      [] p = "segment" -> {PyInt(7), PyInt(10)}
      [] p = "jobs" -> {PyInt(0), PyInt(2)}
      [] p = "progress" -> {PyBool(FALSE), PyBool(TRUE)}
      [] p = "callback" -> {PyFunc("print"), PyFunc("on_progress"),
                             PyStr("not a function")}
      [] p = "callback_arg" -> {PyDict(<<>>), PyDict(<< <<"tag", 7>> >>),
                                 PyDict(<< <<"audio_length", 99>>, <<"tag", 7>> >>)}

\* The defaults of __init__'s signature; the default device depends on
\* whether CUDA is available when the module is imported.
InitDefaults(cuda) ==
    [p \in Params |->
        CASE p = "device" -> IF cuda THEN PyStr("cuda") ELSE PyStr("cpu")
          [] p = "shifts" -> PyInt(1)
          [] p = "overlap" -> PyFloat("0.25")
          [] p = "split" -> PyBool(TRUE)
          [] p = "jobs" -> PyInt(0)
          [] p = "progress" -> PyBool(FALSE)
          [] OTHER -> None]

\* The defaults of update_parameter's signature.
UpdateDefaults == [p \in Params |-> None]

\* The keyword arguments of the calls the model makes: no keyword, one
\* keyword with each of its values, every keyword at once (all of them set,
\* or all of them None), and the call of the module's __main__ block.
NoKeywords == [p \in {} |-> None]
OneKeyword == UNION {{(p :> v) : v \in ParamValues(p)} : p \in Params}
AllKeywords ==
    { [p \in Params |->
          CASE p = "device" -> PyStr("cuda")
            [] p = "shifts" -> PyInt(0)
            [] p = "overlap" -> PyFloat("0.5")
            [] p = "split" -> PyBool(FALSE)
            [] p = "segment" -> PyInt(10)
            [] p = "jobs" -> PyInt(2)
            [] p = "progress" -> PyBool(TRUE)
            [] p = "callback" -> PyFunc("on_progress")
            [] p = "callback_arg" -> PyDict(<< <<"tag", 7>> >>)],
      [p \in Params |-> None] }
MainKeywords ==
    [p \in Params \ {"progress", "callback_arg"} |->
        CASE p = "device" -> PyStr("cpu")
          [] p = "shifts" -> PyInt(1)
          [] p = "overlap" -> PyFloat("0.25")
          [] p = "split" -> PyBool(TRUE)
          [] p = "segment" -> None
          [] p = "jobs" -> PyInt(0)
          [] p = "callback" -> PyFunc("print")]
Keywords == {NoKeywords} \cup OneKeyword \cup AllKeywords \cup {MainKeywords}

\* The arguments a call binds: the keywords given, the defaults elsewhere.
Bind(kw, defaults) ==
    [p \in Params |-> IF p \in DOMAIN kw THEN kw[p] ELSE defaults[p]]

(***************************************************************************)
(* Separator._set_attr and Separator.update_parameter.                     *)
(***************************************************************************)
HasAttr(obj, attr) == obj[attr] # Absent

\* A _set_attr that tests the value's truth instead of `is not None`.
SetAttrIfTruthy(obj, attr, value) ==
    IF Truthy(value) THEN [obj EXCEPT ![attr] = value]
    ELSE IF ~HasAttr(obj, attr) THEN [obj EXCEPT ![attr] = None]
    ELSE obj

\* A _set_attr that stores whatever it is given.
SetAttrAlways(obj, attr, value) == [obj EXCEPT ![attr] = value]

SetAttr(obj, attr, value) ==
    IF value # None THEN [obj EXCEPT ![attr] = value]
    ELSE IF ~HasAttr(obj, attr) THEN [obj EXCEPT ![attr] = None]
    ELSE obj

\* The value update_parameter passes to _set_attr for parameter p.
StoredValue(p, args) ==
    IF p = "callback"
    THEN (IF Callable(args[p]) THEN args[p] ELSE None)
    ELSE args[p]

RECURSIVE SetAttrsUpTo(_, _, _)
\* The first n _set_attr calls of update_parameter, in order.
SetAttrsUpTo(obj, args, n) ==
    IF n = 0 THEN obj
    ELSE SetAttr(SetAttrsUpTo(obj, args, n - 1), ParamNames[n],
                 StoredValue(ParamNames[n], args))

UpdateParameterOf(obj, args) == SetAttrsUpTo(obj, args, Len(ParamNames))

(***************************************************************************)
(* Numbers.  A tensor element is computed exactly, not in float32: it is   *)
(* NaN, +inf, -inf, or the finite real a + b * sqrt(v), with a and b       *)
(* rationals and v the variance under the square root of the call's        *)
(* ref.std().  Float rounding and overflow are not modelled.               *)
(***************************************************************************)
Abs(i) == IF i < 0 THEN -i ELSE i

RECURSIVE Gcd(_, _)
Gcd(a, b) == IF b = 0 THEN a ELSE Gcd(b, a % b)

\* The rational n/d (d # 0) in lowest terms with a positive denominator.
Rat(n, d) ==
    LET g == Gcd(Abs(n), Abs(d))
        sgn == IF d < 0 THEN -1 ELSE 1
    IN <<sgn * (n \div g), sgn * (d \div g)>>
RInt(i) == <<i, 1>>
RAdd(x, y) == Rat(x[1] * y[2] + y[1] * x[2], x[2] * y[2])
RNeg(x) == <<-x[1], x[2]>>
RSub(x, y) == RAdd(x, RNeg(y))
RMul(x, y) == Rat(x[1] * y[1], x[2] * y[2])
RDiv(x, y) == Rat(x[1] * y[2], x[2] * y[1])
RSign(x) == IF x[1] > 0 THEN 1 ELSE IF x[1] < 0 THEN -1 ELSE 0

IsSquare(n) == \E r \in 0..n : r * r = n
IntSqrt(n) == CHOOSE r \in 0..n : r * r = n

Fin(a, b) == [k |-> "fin", a |-> a, b |-> b]
Real(i) == Fin(RInt(i), RInt(0))
NaN == [k |-> "nan", a |-> RInt(0), b |-> RInt(0)]
Inf(sgn) == [k |-> IF sgn > 0 THEN "+inf" ELSE "-inf", a |-> RInt(0), b |-> RInt(0)]

\* The sign of a number that is not NaN.
NSign(x, v) ==
    CASE x.k = "+inf" -> 1
      [] x.k = "-inf" -> -1
      [] OTHER ->
            LET sa == RSign(x.a)
                sb == RSign(x.b) * RSign(v)
                \* a^2 against b^2 * v
                cmp == RSign(RSub(RMul(x.a, x.a), RMul(RMul(x.b, x.b), v)))
            IN IF sb = 0 THEN sa
               ELSE IF sa = 0 THEN sb
               ELSE IF sa = sb THEN sa
               ELSE sa * cmp

NNeg(x) ==
    CASE x.k = "nan" -> NaN
      [] x.k = "+inf" -> Inf(-1)
      [] x.k = "-inf" -> Inf(1)
      [] OTHER -> Fin(RNeg(x.a), RNeg(x.b))

NAdd(x, y) ==
    CASE x.k = "nan" \/ y.k = "nan" -> NaN
      [] x.k = "fin" /\ y.k = "fin" -> Fin(RAdd(x.a, y.a), RAdd(x.b, y.b))
      [] x.k = "fin" -> y
      [] y.k = "fin" -> x
      [] OTHER -> IF x.k = y.k THEN x ELSE NaN

NSub(x, y) == NAdd(x, NNeg(y))

NMul(x, y, v) ==
    CASE x.k = "nan" \/ y.k = "nan" -> NaN
      [] x.k = "fin" /\ y.k = "fin" ->
            Fin(RAdd(RMul(x.a, y.a), RMul(RMul(x.b, y.b), v)),
                RAdd(RMul(x.a, y.b), RMul(x.b, y.a)))
      [] OTHER ->
            IF NSign(x, v) = 0 \/ NSign(y, v) = 0 THEN NaN
            ELSE Inf(NSign(x, v) * NSign(y, v))

NDiv(x, y, v) ==
    CASE x.k = "nan" \/ y.k = "nan" -> NaN
      [] x.k # "fin" /\ y.k # "fin" -> NaN
      [] x.k = "fin" /\ y.k # "fin" -> Real(0)
      [] NSign(y, v) = 0 ->
            IF NSign(x, v) = 0 THEN NaN ELSE Inf(NSign(x, v))
      [] x.k # "fin" -> Inf(NSign(x, v) * NSign(y, v))
      [] OTHER ->
            \* (a1 + b1 r)(a2 - b2 r) / (a2^2 - b2^2 v), with r = sqrt(v)
            LET den == RSub(RMul(y.a, y.a), RMul(RMul(y.b, y.b), v))
                num == NMul(x, Fin(y.a, RNeg(y.b)), v)
            IN Fin(RDiv(num.a, den), RDiv(num.b, den))

\* sqrt(v) for a rational v >= 0 in lowest terms: a rational when numerator
\* and denominator are squares, else the irrational 0 + 1 * sqrt(v).
NSqrt(v) ==
    IF IsSquare(v[1]) /\ IsSquare(v[2])
    THEN Fin(Rat(IntSqrt(v[1]), IntSqrt(v[2])), RInt(0))
    ELSE Fin(RInt(0), RInt(1))

RECURSIVE NSum(_)
NSum(xs) == IF xs = <<>> THEN Real(0) ELSE NAdd(Head(xs), NSum(Tail(xs)))

(***************************************************************************)
(* Tensors.  A waveform is a tensor of shape (channels, samples): the      *)
(* sequence of its channels, each the sequence of its samples.             *)
(***************************************************************************)
PyTensor(rows) == [type |-> "Tensor", val |-> rows]
Channels(w) == Len(w.val)
Samples(w) == Len(w.val[1])
\* wav.shape
Shape(w) == <<Channels(w), Samples(w)>>

\* The values of the samples of the waveforms the model separates.
SampleValues == {-1, 0, 1}
\* The channel counts of those waveforms (mono, stereo).
ChannelCounts == {1, 2}
Waveforms ==
    UNION { { PyTensor([c \in 1..nc |-> [i \in 1..n |-> Real(m[c][i])]]) :
                m \in [1..nc -> [1..n -> SampleValues]] } :
            <<nc, n>> \in ChannelCounts \X (0..MaxSamples) }

\* An elementwise operation of a tensor with a scalar.
MapTensor(w, Op(_)) ==
    PyTensor([c \in 1..Channels(w) |-> [i \in 1..Samples(w) |-> Op(w.val[c][i])]])

\* wav.mean(0): the mean over the channels, one value per sample.
MeanOverChannels(w) ==
    [i \in 1..Samples(w) |->
        NDiv(NSum([c \in 1..Channels(w) |-> w.val[c][i]]), Real(Channels(w)), RInt(0))]

\* ref.mean(): the sum over the count, NaN (0/0) for no element.
MeanOf(ref) == NDiv(NSum(ref), Real(Len(ref)), RInt(0))

\* The variance under the square root of ref.std() (Bessel's correction: the
\* squared deviations over n - 1), for n >= 2 rational elements.
VarianceOf(ref) ==
    LET mu == MeanOf(ref).a
        dev == [i \in 1..Len(ref) |->
                    Fin(RMul(RSub(ref[i].a, mu), RSub(ref[i].a, mu)), RInt(0))]
    IN RDiv(NSum(dev).a, RInt(Len(ref) - 1))

\* The radicand the numbers of a call are written over.
Radicand(ref) == IF Len(ref) < 2 THEN RInt(0) ELSE VarianceOf(ref)

\* ref.std(): NaN for fewer than two elements (0/0 degrees of freedom).
StdOf(ref) == IF Len(ref) < 2 THEN NaN ELSE NSqrt(VarianceOf(ref))

(***************************************************************************)
(* Separator.__init__ and Separator._load_model.                           *)
(***************************************************************************)
PyModel(sources, channels, rate) ==
    [type |-> "Model",
     val |-> [sources |-> sources, audio_channels |-> channels, samplerate |-> rate]]

\* What get_model(name, repo) answers: a model of the repository, or None.
ModelNames == {"htdemucs", "two_stems", "unknown"}
GetModel(name) ==
    CASE name = "htdemucs" -> PyModel(<<"drums", "bass", "other", "vocals">>, 2, 44100)
      [] name = "two_stems" -> PyModel(<<"vocals", "accompaniment">>, 1, 16000)
      [] OTHER -> None

\* An object on which no attribute has been set yet.
NoAttrs == [p \in Params |-> Absent]

Returned(v) == [kind |-> "return", value |-> v]
Raised(exc, msg) == [kind |-> "raise", exc |-> exc, msg |-> msg]
NoCall == [op |-> "none"]
NoRet == [kind |-> "none"]
NotApplied == [called |-> FALSE]

Init ==
    /\ life = "new"
    /\ self = NoAttrs
    /\ model = None
    /\ pc = "idle"
    /\ call = NoCall
    /\ ret = NoRet
    /\ nUpdates = 0
    /\ errors = <<>>
    /\ wav = None
    /\ sr = None
    /\ trace = <<>>
    /\ applied = NotApplied
    /\ encoded = <<>>

\* Separator(model=name, **kw): _load_model, then update_parameter with the
\* bound arguments.
Construct(name, kw, cuda) ==
    /\ life = "new"
    /\ pc = "idle"
    /\ call' = [op |-> "__init__", name |-> name, args |-> Bind(kw, InitDefaults(cuda))]
    /\ pc' = "returned"
    /\ \/ /\ GetModel(name) = None
          /\ ret' = Raised("LoadModelError", <<"Failed to load model">>)
          /\ life' = "dead"
          /\ UNCHANGED <<self, model>>
       \/ /\ GetModel(name) # None
          /\ model' = GetModel(name)
          /\ self' = UpdateParameterOf(self, Bind(kw, InitDefaults(cuda)))
          /\ ret' = Returned(None)
          /\ life' = "ready"
    /\ UNCHANGED <<nUpdates, errors, wav, sr, trace, applied, encoded>>

\* separator.update_parameter(**kw)
UpdateParameter(kw) ==
    /\ life = "ready"
    /\ pc = "idle"
    /\ nUpdates < MaxUpdates
    /\ call' = [op |-> "update_parameter", args |-> Bind(kw, UpdateDefaults)]
    /\ self' = UpdateParameterOf(self, Bind(kw, UpdateDefaults))
    /\ ret' = Returned(None)
    /\ pc' = "returned"
    /\ nUpdates' = nUpdates + 1
    /\ UNCHANGED <<life, model, errors, wav, sr, trace, applied, encoded>>

\* The caller takes the result of the call that returned or raised; the
\* call's frame is gone.
Resume ==
    /\ pc = "returned"
    /\ pc' = "idle"
    /\ call' = NoCall
    /\ ret' = NoRet
    /\ errors' = <<>>
    /\ wav' = None
    /\ sr' = None
    /\ trace' = <<>>
    /\ applied' = NotApplied
    /\ encoded' = <<>>
    /\ UNCHANGED <<life, self, model, nUpdates>>

(***************************************************************************)
(* Separator.separate_tensor.                                              *)
(***************************************************************************)
\* The stubs that stand for demucs.apply.apply_model: it takes a batch of one
\* normalized waveform and answers a batch of one list of tensors, one per
\* source of the model.  "identity" answers the mix for every source;
\* "indexed" answers i times the mix for the i-th source, so that the sources
\* differ.
Stubs == {"identity", "indexed"}
ApplyModel(stub, mdl, mix, v) ==
    << [i \in 1..Len(mdl.val.sources) |->
            IF stub = "identity" THEN mix[1]
            ELSE MapTensor(mix[1], LAMBDA x : NMul(Real(i), x, v))] >>

\* demucs.apply._replace_dict(_dict, (key, value)): a copy of the dict (an
\* empty one for None) with the key set.
ReplaceDict(d, key, value) ==
    PyDict(DictSet(IF d = None THEN <<>> ELSE d.val, key, value))

\* ref = wav.mean(0) with ref.mean(), ref.std() and the variance under its root
Stats(w) ==
    LET ref == MeanOverChannels(w)
    IN [mean |-> MeanOf(ref), std |-> StdOf(ref), v |-> Radicand(ref)]

\* (wav - ref.mean()) / ref.std()
Normalize(w, st) ==
    MapTensor(w, LAMBDA x : NDiv(NSub(x, st.mean), st.std, st.v))

\* t * ref.std() + ref.mean()
Denormalize(t, st) ==
    MapTensor(t, LAMBDA x : NAdd(NMul(x, st.std, st.v), st.mean))

\* A callback context that gives the channel count as the audio length.
CallbackContextOfChannels(obj, wavn) ==
    ReplaceDict(obj["callback_arg"], "audio_length", Shape(wavn)[1])

\* _replace_dict(self._callback_arg, ("audio_length", wav.shape[1]))
CallbackContext(obj, wavn) ==
    ReplaceDict(obj["callback_arg"], "audio_length", Shape(wavn)[2])

\* A source mapping that pairs the names with the outputs in reverse.
SourceMappingReversed(sources, outs) ==
    DictFromPairs(Zip(sources, [i \in 1..Len(outs) |-> outs[Len(outs) + 1 - i]]))

\* dict(zip(self._model.sources, out[0]))
SourceMapping(sources, outs) == DictFromPairs(Zip(sources, outs))

\* The keyword arguments separate_tensor gives apply_model for the normalized
\* waveform wavn, with what the stub answered.
ApplyCall(obj, mdl, wavn, answer) ==
    [called |-> TRUE,
     model |-> mdl,
     mix |-> <<wavn>>,
     segment |-> obj["segment"],
     shifts |-> obj["shifts"],
     split |-> obj["split"],
     overlap |-> obj["overlap"],
     device |-> obj["device"],
     num_workers |-> obj["jobs"],
     callback |-> obj["callback"],
     callback_arg |-> CallbackContext(obj, wavn),
     progress |-> obj["progress"],
     answer |-> answer]

\* apply_model(...) * ref.std() + ref.mean(), over the batch
DenormalizeBatch(answer, st) ==
    [b \in 1..Len(answer) |->
        [i \in 1..Len(answer[b]) |-> Denormalize(answer[b][i], st)]]

\* The tuple separate_tensor returns: the local `wav`, which by then is the
\* normalized waveform, and the source mapping of out[0].
ReturnedTuple(mdl, wavn, out) == <<wavn, SourceMapping(mdl.val.sources, out[1])>>

\* The body of separate_tensor(w): each local is bound once, in the order of
\* the code (the statistics of ref, the rebound wav, out).
SeparateTensorBody(w, stub) ==
    \E st \in {Stats(w)} :
    \E wavn \in {Normalize(w, st)} :
    \E answer \in {ApplyModel(stub, model, <<wavn>>, st.v)} :
    \E out \in {DenormalizeBatch(answer, st)} :
        /\ applied' = ApplyCall(self, model, wavn, answer)
        /\ ret' = Returned(ReturnedTuple(model, wavn, out))

\* separator.separate_tensor(w), with apply_model stubbed
SeparateTensor(w, stub) ==
    /\ life = "ready"
    /\ pc = "idle"
    /\ call' = [op |-> "separate_tensor", wav |-> w, stub |-> stub]
    /\ SeparateTensorBody(w, stub)
    /\ pc' = "returned"
    /\ UNCHANGED <<life, self, model, nUpdates, errors, wav, sr, trace, encoded>>

(***************************************************************************)
(* Separator._load_audio and Separator.separate_audio_file.                *)
(***************************************************************************)
\* The waveforms the decode backends and convert_audio answer.
DecodedAudio ==
    { PyTensor(<< <<Real(0), Real(1)>> >>),
      PyTensor(<< <<Real(1), Real(1)>> >>),
      PyTensor(<< <<Real(0), Real(1)>>, <<Real(0), Real(1)>> >>),
      PyTensor(<< <<Real(1), Real(0)>>, <<Real(0), Real(0)>> >>) }
\* The sample rates torchaudio.load reports.
FileSampleRates == {44100, 48000}

\* AudioFile(track).read(streams=0, samplerate=..., channels=...): a waveform
\* with the channel count asked for.
AudioFileRead(rate, channels) == {w \in DecodedAudio : Channels(w) = channels}

\* convert_audio(wav, sr, samplerate, channels): the waveform at the target
\* sample rate and channel count; the waveform itself when it is there already.
ConvertAudio(w, from, rate, channels) ==
    IF from = rate /\ Channels(w) = channels THEN {w}
    ELSE {x \in DecodedAudio : Channels(x) = channels}

\* The except clauses that swap their two texts.
FfmpegErrorSwapped(exc) ==
    IF exc = "FileNotFoundError" THEN "FFmpeg could not read the file."
    ELSE "FFmpeg is not installed."

\* The text the except clauses of the first try record for the exception.
FfmpegError(exc) ==
    IF exc = "FileNotFoundError" THEN "FFmpeg is not installed."
    ELSE "FFmpeg could not read the file."

\* A second backend that is tried whatever the first one gave.
SecondaryAlways(w) == TRUE

\* `if wav is None:` before the second try
SecondaryNeeded(w) == w = None

RECURSIVE JoinLines(_, _)
\* sep.join(lines), as the sequence of the fragments
JoinLines(sep, lines) ==
    IF lines = <<>> THEN <<>>
    ELSE IF Len(lines) = 1 THEN lines[1]
    ELSE lines[1] \o <<sep>> \o JoinLines(sep, Tail(lines))

\* The message of LoadAudioError: one formatted line per item of `errors`.
LoadErrorMessage(errs) ==
    JoinLines("\n",
        [i \in 1..Len(errs) |->
            <<"When trying to load using ", errs[i][1],
              ", got the following error: ", errs[i][2]>>])

Step(fn, outcome, msg) == [fn |-> fn, outcome |-> outcome, msg |-> msg]

\* separator._load_audio(track), or separator.separate_audio_file(track),
\* which calls it first: the locals are set up.
LoadAudioCall(op, track, stub) ==
    /\ life = "ready"
    /\ pc = "idle"
    /\ call' = [op |-> op, track |-> track, stub |-> stub]
    /\ errors' = <<>>
    /\ wav' = None
    /\ pc' = "try_ffmpeg"
    /\ UNCHANGED <<life, self, model, ret, nUpdates, sr, trace, applied, encoded>>

\* The first try: AudioFile(track).read(...).
TryFfmpeg ==
    /\ pc = "try_ffmpeg"
    /\ \/ \E w \in AudioFileRead(model.val.samplerate, model.val.audio_channels) :
            /\ wav' = w
            /\ trace' = Append(trace, Step("AudioFile.read", "ok", <<>>))
            /\ pc' = IF SecondaryNeeded(w) THEN "try_torchaudio" ELSE "check"
            /\ UNCHANGED <<errors, ret>>
       \/ \E exc \in {"FileNotFoundError", "CalledProcessError"} :
            /\ errors' = DictSet(errors, "ffmpeg", FfmpegError(exc))
            /\ trace' = Append(trace, Step("AudioFile.read", exc, <<"A">>))
            /\ pc' = IF SecondaryNeeded(wav) THEN "try_torchaudio" ELSE "check"
            /\ UNCHANGED <<wav, ret>>
       \/ \* any other exception leaves _load_audio
          /\ trace' = Append(trace, Step("AudioFile.read", "KeyError", <<"A">>))
          /\ ret' = Raised("KeyError", <<"A">>)
          /\ pc' = "returned"
          /\ UNCHANGED <<errors, wav>>
    /\ UNCHANGED <<life, self, model, call, nUpdates, sr, applied, encoded>>

\* The second try: torchaudio.load(str(track)).
TryTorchaudio ==
    /\ pc = "try_torchaudio"
    /\ \/ \E w \in DecodedAudio, rate \in FileSampleRates :
            /\ wav' = w
            /\ sr' = PyInt(rate)
            /\ trace' = Append(trace, Step("torchaudio.load", "ok", <<>>))
            /\ pc' = "convert"
            /\ UNCHANGED <<errors, ret>>
       \/ \* RuntimeError("B"): err.args[0] is recorded
          /\ errors' = DictSet(errors, "torchaudio", "B")
          /\ trace' = Append(trace, Step("torchaudio.load", "RuntimeError", <<"B">>))
          /\ pc' = "check"
          /\ UNCHANGED <<wav, sr, ret>>
       \/ \* RuntimeError(): err.args[0] raises IndexError in the handler
          /\ trace' = Append(trace, Step("torchaudio.load", "RuntimeError", <<>>))
          /\ ret' = Raised("IndexError", <<"tuple index out of range">>)
          /\ pc' = "returned"
          /\ UNCHANGED <<errors, wav, sr>>
       \/ \* any other exception leaves _load_audio
          /\ trace' = Append(trace, Step("torchaudio.load", "OSError", <<"B">>))
          /\ ret' = Raised("OSError", <<"B">>)
          /\ pc' = "returned"
          /\ UNCHANGED <<errors, wav, sr>>
    /\ UNCHANGED <<life, self, model, call, nUpdates, applied, encoded>>

\* wav = convert_audio(wav, sr, self._samplerate, self._audio_channels)
Convert ==
    /\ pc = "convert"
    /\ \E w \in ConvertAudio(wav, sr.val, model.val.samplerate, model.val.audio_channels) :
            wav' = w
    /\ trace' = Append(trace, Step("convert_audio", "ok", <<>>))
    /\ pc' = "check"
    /\ UNCHANGED <<life, self, model, call, ret, nUpdates, errors, sr, applied, encoded>>

\* The last `if wav is None:`: LoadAudioError, or the waveform is returned;
\* separate_audio_file hands it to separate_tensor and returns what that returns.
FinishLoad ==
    /\ pc = "check"
    /\ \/ /\ wav = None
          /\ ret' = Raised("LoadAudioError", LoadErrorMessage(errors))
          /\ UNCHANGED applied
       \/ /\ wav # None
          /\ call.op = "_load_audio"
          /\ ret' = Returned(wav)
          /\ UNCHANGED applied
       \/ /\ wav # None
          /\ call.op = "separate_audio_file"
          /\ SeparateTensorBody(wav, call.stub)
    /\ pc' = "returned"
    /\ UNCHANGED <<life, self, model, call, nUpdates, errors, wav, sr, trace, encoded>>

\* The constructions of the Separators that load and separate: the calls of
\* Keywords that give no keyword, every keyword, the keywords of __main__, or
\* a callback_arg.
SeparatorKeywords ==
    {NoKeywords, MainKeywords} \cup AllKeywords
        \cup {kw \in OneKeyword : DOMAIN kw = {"callback_arg"}}

Next ==
    \/ \E name \in ModelNames, kw \in SeparatorKeywords, cuda \in BOOLEAN :
            Construct(name, kw, cuda)
    \/ \E w \in Waveforms, stub \in Stubs : SeparateTensor(w, stub)
    \/ \E op \in {"_load_audio", "separate_audio_file"}, stub \in Stubs :
            LoadAudioCall(op, "track.mp3", stub)
    \/ TryFfmpeg
    \/ TryTorchaudio
    \/ Convert
    \/ FinishLoad
    \/ Resume

\* A Separator that is constructed and then loads and separates.
Spec == Init /\ [][Next]_vars

(***************************************************************************)
(* save_audio.                                                             *)
(***************************************************************************)
\* The destination paths the model saves to, as sequences of characters,
\* grouped by what their extension is: out.mp3 a.MP3; out.wav out.WAV a.b.wav
\* d.x/s.Wav; out.flac a.FLAC; and the rest: out.ogg, out (no extension),
\* .wav (a hidden file: no extension), a.wav/b (the dot is in the directory),
\* a.wav.bak, out.wave.
Mp3Paths == { <<"o", "u", "t", ".", "m", "p", "3">>, <<"a", ".", "M", "P", "3">> }
WavPaths == { <<"o", "u", "t", ".", "w", "a", "v">>, <<"o", "u", "t", ".", "W", "A", "V">>,
              <<"a", ".", "b", ".", "w", "a", "v">>,
              <<"d", ".", "x", "/", "s", ".", "W", "a", "v">> }
FlacPaths == { <<"o", "u", "t", ".", "f", "l", "a", "c">>, <<"a", ".", "F", "L", "A", "C">> }
OtherPaths == { <<"o", "u", "t", ".", "o", "g", "g">>, <<"o", "u", "t">>,
                <<".", "w", "a", "v">>, <<"a", ".", "w", "a", "v", "/", "b">>,
                <<"a", ".", "w", "a", "v", ".", "b", "a", "k">>,
                <<"o", "u", "t", ".", "w", "a", "v", "e">> }
Paths == Mp3Paths \cup WavPaths \cup FlacPaths \cup OtherPaths

\* The waveforms the model saves: one within [-1, 1], one with a peak of 2.
SavedWaveforms ==
    { PyTensor(<< <<Real(0), Real(1)>> >>), PyTensor(<< <<Real(2), Real(-1)>> >>) }
ClipModes == {"rescale", "clamp", "tanh", "none"}
BitDepths == {16, 24, 32}
Bitrates == {128, 320}

\* The position of the last c in s, 0 when there is none (str.rfind, from 1).
LastIndexOf(s, c) ==
    IF \E i \in 1..Len(s) : s[i] = c
    THEN CHOOSE i \in 1..Len(s) : s[i] = c /\ \A j \in (i + 1)..Len(s) : s[j] # c
    ELSE 0

\* Path(path).name: what follows the last separator.
PathName(path) == SubSeq(path, LastIndexOf(path, "/") + 1, Len(path))

\* Path(path).suffix: the name from its last dot on, when that dot is neither
\* the first nor the last character of the name; else the empty string.
PathSuffix(path) ==
    LET name == PathName(path)
        i == LastIndexOf(name, ".")
    IN IF 1 < i /\ i < Len(name) THEN SubSeq(name, i, Len(name)) ELSE <<>>

\* str.lower, on the letters of the paths.
LowerChar(c) ==
    CASE c = "A" -> "a" [] c = "C" -> "c" [] c = "F" -> "f" [] c = "L" -> "l"
      [] c = "M" -> "m" [] c = "P" -> "p" [] c = "V" -> "v" [] c = "W" -> "w"
      [] OTHER -> c
Lower(s) == [i \in 1..Len(s) |-> LowerChar(s[i])]

\* A suffix taken as it is written.
SuffixAsWritten(path) == PathSuffix(path)

\* suffix = path.suffix.lower()
SuffixOf(path) == Lower(PathSuffix(path))

\* A bit depth that as_float leaves alone.
WavBitsAsRequested(as_float, bits) == bits

\* bits_per_sample as the .wav branch passes it on
WavBits(as_float, bits) == IF as_float THEN 32 ELSE bits

\* encoding as the .wav branch passes it on
WavEncoding(as_float) == IF as_float THEN "PCM_F" ELSE "PCM_S"

\* The largest absolute value of the samples of a tensor of rationals.
RAbs(x) == IF x[1] < 0 THEN RNeg(x) ELSE x
RLess(x, y) == RSign(RSub(x, y)) < 0
Peak(w) ==
    LET all == {RAbs(w.val[c][i].a) : c \in 1..Channels(w), i \in 1..Samples(w)}
    IN CHOOSE m \in all : \A x \in all : ~RLess(m, x)

\* demucs.audio.prevent_clip(wav, mode): rescale divides by the peak when it
\* exceeds 1, clamp limits the samples to [-1, 1], tanh applies the hyperbolic
\* tangent (kept as a term: ("tanh", wav)), none gives the waveform back.
PreventClip(w, mode) ==
    CASE mode = "rescale" ->
            IF RLess(RInt(1), Peak(w))
            THEN MapTensor(w, LAMBDA x : Fin(RDiv(x.a, Peak(w)), RInt(0)))
            ELSE w
      [] mode = "clamp" ->
            MapTensor(w, LAMBDA x : IF RLess(RInt(1), x.a) THEN Real(1)
                                    ELSE IF RLess(x.a, RInt(-1)) THEN Real(-1)
                                    ELSE x)
      [] mode = "tanh" -> [type |-> "Tensor", val |-> <<"tanh", w.val>>]
      [] OTHER -> w

\* The encoder invocations of save_audio and how it ends, by the suffix.
SaveAudioOf(args) ==
    LET w == PreventClip(args.wav, args.clip)
        suffix == SuffixOf(args.path)
    IN CASE suffix = <<".", "m", "p", "3">> ->
                [encoded |-> << [fn |-> "encode_mp3", wav |-> w, path |-> args.path,
                                 samplerate |-> args.samplerate, bitrate |-> args.bitrate,
                                 verbose |-> TRUE] >>,
                 ret |-> Returned(None)]
         [] suffix = <<".", "w", "a", "v">> ->
                [encoded |-> << [fn |-> "torchaudio.save", path |-> args.path, wav |-> w,
                                 sample_rate |-> args.samplerate,
                                 encoding |-> WavEncoding(args.as_float),
                                 bits_per_sample |-> WavBits(args.as_float,
                                                             args.bits_per_sample)] >>,
                 ret |-> Returned(None)]
         [] suffix = <<".", "f", "l", "a", "c">> ->
                [encoded |-> << [fn |-> "torchaudio.save", path |-> args.path, wav |-> w,
                                 sample_rate |-> args.samplerate,
                                 encoding |-> "(not passed)",
                                 bits_per_sample |-> args.bits_per_sample] >>,
                 ret |-> Returned(None)]
         [] OTHER ->
                [encoded |-> <<>>,
                 ret |-> Raised("ValueError", <<"Invalid suffix for path: ", suffix>>)]

\* save_audio(w, path, samplerate, bitrate, clip, bits_per_sample, as_float)
SaveAudio(args) ==
    /\ pc = "idle"
    /\ call' = [op |-> "save_audio", args |-> args]
    /\ encoded' = SaveAudioOf(args).encoded
    /\ ret' = SaveAudioOf(args).ret
    /\ pc' = "returned"
    /\ UNCHANGED <<life, self, model, nUpdates, errors, wav, sr, trace, applied>>

SaveArgs ==
    [wav : SavedWaveforms, path : Paths, samplerate : {44100}, bitrate : Bitrates,
     clip : ClipModes, bits_per_sample : BitDepths, as_float : BOOLEAN]

NextSave ==
    \/ \E args \in SaveArgs : SaveAudio(args)
    \/ Resume

\* save_audio on its own: a module function that needs no Separator.
SpecSave == Init /\ [][NextSave]_vars

NextConfig ==
    \/ \E name \in ModelNames, kw \in Keywords, cuda \in BOOLEAN : Construct(name, kw, cuda)
    \/ \E kw \in Keywords : UpdateParameter(kw)
    \/ Resume

\* The Separator's parameters: construction and any number of updates.
SpecConfig == Init /\ [][NextConfig]_vars

(***************************************************************************)
(* Claims about the parameters.                                            *)
(***************************************************************************)
\* The step is a call of update_parameter on a constructed Separator.
UpdateStep ==
    life = "ready" /\ pc = "idle" /\ pc' = "returned" /\ call'.op = "update_parameter"

\* C1 (as stated): after update_parameter(F), every parameter for which F gives
\* a value other than None holds that value, and every other parameter holds
\* the value it had before the call.
C1_SuppliedStoredOthersKept ==
    [][UpdateStep =>
        \A p \in Params :
            IF call'.args[p] # None THEN self'[p] = call'.args[p]
            ELSE self'[p] = self[p]]_vars

\* F gives parameter p a value update_parameter takes: one other than None,
\* and for the callback a callable one.
Supplied(args, p) == args[p] # None /\ (p = "callback" => Callable(args[p]))

\* C1 (amended): after update_parameter(F), every parameter F supplies (a value
\* other than None, and for callback a callable one) holds the supplied value,
\* and every other parameter, a callback given a non-callable value included,
\* holds the value it had before the call.
C1_SuppliedCallableStoredOthersKept ==
    [][UpdateStep =>
        \A p \in Params :
            IF Supplied(call'.args, p) THEN self'[p] = call'.args[p]
            ELSE self'[p] = self[p]]_vars

\* C1 witness: an update that gave jobs=0 (a falsy value) to a Separator whose
\* jobs was 2 has returned, with jobs now 0 and the overlap still the 0.5 the
\* Separator was constructed with.
C1_Witness ==
    /\ life = "ready" /\ pc = "returned" /\ call.op = "update_parameter"
    /\ call.args["jobs"] = PyInt(0) /\ call.args["overlap"] = None
    /\ self["jobs"] = PyInt(0) /\ self["overlap"] = PyFloat("0.5")
    /\ nUpdates = 1

\* C10: once constructed, the Separator has all nine parameters (None where
\* none was ever supplied); a parameter that holds a value other than None
\* never holds None again; and update_parameter with a callback that is not
\* callable leaves the callback it had.
C10_DefinedAndNeverCleared ==
    [][/\ life' = "ready" => \A p \in Params : HasAttr(self', p)
       /\ life = "ready" =>
            \A p \in Params : self[p] # None => self'[p] # None /\ HasAttr(self', p)
       /\ UpdateStep /\ ~Callable(call'.args["callback"]) =>
            self'["callback"] = self["callback"]]_vars

\* C10 witness: update_parameter was called with callback="not a function" on
\* a Separator whose callback is (still) print, and whose segment is None.
C10_Witness ==
    /\ life = "ready" /\ pc = "returned" /\ call.op = "update_parameter"
    /\ call.args["callback"] = PyStr("not a function")
    /\ self["callback"] = PyFunc("print")
    /\ self["segment"] = None

(***************************************************************************)
(* Claims about loading.                                                   *)
(***************************************************************************)
LoadOps == {"_load_audio", "separate_audio_file"}
CaughtByFirstTry == {"FileNotFoundError", "CalledProcessError"}

\* A load call has ended after both backends failed: the first with an
\* exception the first try catches, the second with a RuntimeError that
\* carries a text.
BothBackendsFailed ==
    /\ pc = "returned" /\ call.op \in LoadOps
    /\ Len(trace) = 2
    /\ trace[1].fn = "AudioFile.read" /\ trace[1].outcome \in CaughtByFirstTry
    /\ trace[2].fn = "torchaudio.load" /\ trace[2].outcome = "RuntimeError"
    /\ trace[2].msg # <<>>

\* The message with one line per backend, the first backend's line first.
TwoLineMessage(textA, textB) ==
    <<"When trying to load using ", "ffmpeg", ", got the following error: ", textA,
      "\n",
      "When trying to load using ", "torchaudio", ", got the following error: ", textB>>

\* C2 (as stated): when both backends fail, the first with failure text A and
\* the second with failure text B, the call raises LoadAudioError whose message
\* is the ffmpeg line carrying A, a newline, and the torchaudio line carrying B.
C2_MessageCarriesBothTexts ==
    BothBackendsFailed =>
        ret = Raised("LoadAudioError", TwoLineMessage(trace[1].msg[1], trace[2].msg[1]))

\* C2 (amended): when both backends fail, the call raises LoadAudioError (no
\* waveform is returned) whose message is the ffmpeg line, a newline, and the
\* torchaudio line; the torchaudio line carries the second backend's failure
\* text B, and the ffmpeg line carries a fixed text chosen by the kind of the
\* first failure ("FFmpeg is not installed." for a missing backend, "FFmpeg
\* could not read the file." for a failed decode), not the backend's own text.
C2_MessageCarriesFixedTextAndB ==
    BothBackendsFailed =>
        ret = Raised("LoadAudioError",
                     TwoLineMessage(IF trace[1].outcome = "FileNotFoundError"
                                    THEN "FFmpeg is not installed."
                                    ELSE "FFmpeg could not read the file.",
                                    trace[2].msg[1]))

\* C2 witness: both backends failed, the first on decoding, and the call
\* raised LoadAudioError.
C2_Witness ==
    /\ BothBackendsFailed
    /\ trace[1].outcome = "CalledProcessError"
    /\ ret.kind = "raise" /\ ret.exc = "LoadAudioError"

\* C9: in a load the first backend is tried first; the second backend is tried
\* exactly when the first failed with an exception the first try catches and
\* left no waveform; convert_audio runs exactly when the second backend's load
\* succeeded; and LoadAudioError is raised only when both were tried and failed.
C9_FallbackOrder ==
    call.op \in LoadOps =>
        LET n == Len(trace)
            firstFailed == n >= 1 /\ trace[1].outcome \in CaughtByFirstTry
            secondTried == n >= 2 /\ trace[2].fn = "torchaudio.load"
            secondLoaded == secondTried /\ trace[2].outcome = "ok"
            converted == n >= 3 /\ trace[3].fn = "convert_audio"
        IN /\ n <= 3
           /\ n >= 1 => trace[1].fn = "AudioFile.read"
           /\ \A i \in 1..n : trace[i].fn = "torchaudio.load" => i = 2 /\ firstFailed
           /\ \A i \in 1..n : trace[i].fn = "convert_audio" => i = 3 /\ secondLoaded
           /\ n >= 1 /\ pc # "try_torchaudio" => (secondTried <=> firstFailed)
           /\ pc = "try_torchaudio" => firstFailed /\ wav = None /\ n = 1
           /\ pc \in {"check", "returned"} => (converted <=> secondLoaded)
           /\ ret.kind = "raise" /\ ret.exc = "LoadAudioError" =>
                /\ firstFailed /\ secondTried /\ trace[2].outcome = "RuntimeError"
                /\ wav = None

\* C9 witness: a load has returned the waveform the second backend loaded and
\* convert_audio converted, after the first backend failed.
C9_Witness ==
    /\ pc = "returned" /\ call.op = "_load_audio"
    /\ Len(trace) = 3 /\ trace[1].outcome = "FileNotFoundError"
    /\ trace[3].fn = "convert_audio"
    /\ ret.kind = "return" /\ ret.value = wav

(***************************************************************************)
(* Claims about separation.                                                *)
(***************************************************************************)
\* separate_tensor, called directly or by separate_audio_file, has returned.
SeparationReturned ==
    /\ pc = "returned"
    /\ call.op \in {"separate_tensor", "separate_audio_file"}
    /\ ret.kind = "return"
    /\ applied.called

\* The waveform separate_tensor was given.
InputWave == IF call.op = "separate_tensor" THEN call.wav ELSE wav

\* C3: the first element of the tuple separate_tensor (and so
\* separate_audio_file) returns is the waveform it was given, not normalized.
C3_ReturnsOriginalWave ==
    SeparationReturned => ret.value[1] = InputWave

\* C6: the mapping separate_tensor returns has the model's source names as its
\* keys, in the model's order, the i-th name with the i-th tensor of the
\* strategy's answer (unbatched and denormalized).
C6_SourceMappingInModelOrder ==
    SeparationReturned =>
        \A st \in {Stats(InputWave)} :
            /\ DictKeys(ret.value[2]) = model.val.sources
            /\ \A i \in 1..Len(model.val.sources) :
                    ret.value[2][i] = <<model.val.sources[i],
                                        Denormalize(applied.answer[1][i], st)>>

\* C6 witness: htdemucs separated [[0, 1]] under the stub whose answers differ;
\* the first item of the mapping is drums with the waveform itself (the mix
\* times 1, denormalized), the second is bass with another tensor.
C6_Witness ==
    /\ SeparationReturned
    /\ call.stub = "indexed"
    /\ InputWave = PyTensor(<< <<Real(0), Real(1)>> >>)
    /\ Len(ret.value[2]) = 4
    /\ ret.value[2][2][1] = "bass"
    /\ ret.value[2][1] = <<"drums", InputWave>>
    /\ ret.value[2][2][2] # ret.value[2][1][2]

\* C7: with apply_model stubbed as the identity, every separated waveform
\* separate_tensor returns equals the waveform it was given.
C7_RoundTripUnderIdentity ==
    SeparationReturned /\ call.stub = "identity" =>
        \A i \in 1..Len(ret.value[2]) : ret.value[2][i][2] = InputWave

\* The round trip of C7 for the waveforms whose channel mean has at least two
\* samples that are not all equal (a standard deviation that is a positive
\* number).
RoundTripWhenStdPositive ==
    SeparationReturned /\ call.stub = "identity" =>
        \A st \in {Stats(InputWave)} :
            st.std.k = "fin" /\ NSign(st.std, st.v) > 0 =>
                \A i \in 1..Len(ret.value[2]) : ret.value[2][i][2] = InputWave

\* C8: the callback_arg separate_tensor hands to apply_model is the
\* Separator's callback_arg (empty for None) with audio_length set to the
\* number of sample frames of the waveform: audio_length replaces a caller's
\* audio_length, and every other key keeps the caller's value.
C8_CallbackContext ==
    SeparationReturned =>
        \A base \in {IF self["callback_arg"] = None THEN <<>> ELSE self["callback_arg"].val} :
        \A ctx \in {applied.callback_arg.val} :
            /\ applied.callback_arg.type = "dict"
            /\ DictHas(ctx, "audio_length")
            /\ DictGet(ctx, "audio_length") = Samples(InputWave)
            /\ {ctx[i][1] : i \in 1..Len(ctx)} =
                    {base[i][1] : i \in 1..Len(base)} \cup {"audio_length"}
            /\ Cardinality({ctx[i][1] : i \in 1..Len(ctx)}) = Len(ctx)
            /\ \A i \in 1..Len(base) :
                    base[i][1] # "audio_length" => DictGet(ctx, base[i][1]) = base[i][2]

\* C8 witness: a stereo waveform of one sample frame was separated by a
\* Separator whose callback_arg has audio_length 99 and tag 7; apply_model got
\* audio_length 1 and tag 7.
C8_Witness ==
    /\ SeparationReturned
    /\ self["callback_arg"] = PyDict(<< <<"audio_length", 99>>, <<"tag", 7>> >>)
    /\ Shape(InputWave) = <<2, 1>>
    /\ DictGet(applied.callback_arg.val, "audio_length") = 1
    /\ DictGet(applied.callback_arg.val, "tag") = 7

(***************************************************************************)
(* Claims about save_audio.                                                *)
(***************************************************************************)
SaveReturned == pc = "returned" /\ call.op = "save_audio"

====
